---- MODULE Spec2Model ----
(***************************************************************************)
(* Proxy-Printer (src/proxyprinter.py): the gallery of card images with    *)
(* quantities (ProxyApp.items / ProxyApp.tiles), the expansion of the      *)
(* gallery into a flat job (ProxyApp.make_pdf) and the 3x3 page compositor *)
(* (make_pages_from_paths).                                                *)
(*                                                                         *)
(* Scope.  The thumbnail cache, the column reflow, the scroll wheel        *)
(* bindings and the drag-and-drop string parser do not influence items,    *)
(* tiles' indices and quantities, or the composed pages, and are left out. *)
(* The locals of one make_pdf call (expanded, out, pages, ...) are kept in *)
(* variables until the call returns (make_pdf_return).                     *)
(***************************************************************************)
EXTENDS Integers, Sequences, FiniteSets, TLC

VARIABLES
    items,        \* ProxyApp.items: sequence of [path, qty]
    tiles,        \* ProxyApp.tiles: sequence of [path, qty_var, minus, plus]
    status,       \* ProxyApp.status (the status bar text)
    pc,           \* "idle": the event loop waits; "done": make_pdf at its return
    expanded,     \* make_pdf local: the flattened job
    out,          \* make_pdf local: the path chosen in the save dialog
    save_asked,   \* make_pdf: whether the save dialog was opened
    pages,        \* make_pdf local: the pages make_pages_from_paths returned
    warnings,     \* the "Warning: couldn't open ..." lines printed by the call
    dialog,       \* the message box make_pdf showed
    saved_doc,    \* the pages written to `out` by pages[0].save
    args,         \* the arguments (dpi, card_w_mm, card_h_mm) of the compositor call
    geom          \* the compositor's geometry locals (page_w .. y_origins)

vars == <<items, tiles, status, pc, expanded, out, save_asked, pages, warnings,
          dialog, saved_doc, args, geom>>

(***************************************************************************)
(* Bounds of the model.                                                    *)
(***************************************************************************)
MaxItems == 2
MaxQty == 5
MaxCardW == 74
MaxJob == 10

(***************************************************************************)
(* Program constants.                                                      *)
(***************************************************************************)
DEFAULT_CARD_W_MM == 62
DEFAULT_CARD_H_MM == 87
DEFAULT_DPI == 300

(***************************************************************************)
(* The file system the program runs against.  A path is [dir, base, ext]   *)
(* (os.path.splitext splits base from ext).                                *)
(***************************************************************************)
Path(d, b, e) == [dir |-> d, base |-> b, ext |-> e]

OkPng     == Path("", "ok", ".png")            \* RGB image, intact
PalPng    == Path("", "pal", ".PNG")           \* palette image with transparency
NotesTxt  == Path("", "notes", ".txt")         \* not an image
MissingPng == Path("", "missing", ".png")      \* no such file
CardsDir  == Path("", "cards", "")             \* a directory
BadJpg    == Path("cards", "bad", ".jpg")      \* no image data: Image.open raises
TruncJpeg == Path("cards", "trunc", ".jpeg")   \* header intact, pixel data cut off
OldPng    == Path("cards", "old", ".png")      \* a sub-directory named like an image
ReadmeTxt == Path("cards", "readme", ".txt")

\* What a path holds: "none", "dir", or the kind of file data
Data(p) ==
    CASE p = OkPng     -> "rgb"
      [] p = PalPng    -> "palette"
      [] p = NotesTxt  -> "text"
      [] p = CardsDir  -> "dir"
      [] p = BadJpg    -> "garbage"
      [] p = TruncJpeg -> "truncated"
      [] p = OldPng    -> "dir"
      [] p = ReadmeTxt -> "text"
      [] OTHER         -> "none"

isdir(p) == Data(p) = "dir"
isfile(p) == Data(p) \notin {"dir", "none"}

\* os.listdir: the names (base, ext) in a directory, in no particular order
listdir(p) ==
    IF p = CardsDir
    THEN {<<"trunc", ".jpeg">>, <<"readme", ".txt">>, <<"bad", ".jpg">>, <<"old", ".png">>}
    ELSE {}

\* os.path.join(p, f) for a directory p of the top level
join(p, f) == Path(p.base \o p.ext, f[1], f[2])

\* the order of str on the names that occur
NameRank(f) ==
    CASE f[1] = "bad" -> 1
      [] f[1] = "old" -> 2
      [] f[1] = "readme" -> 3
      [] f[1] = "trunc" -> 4
      [] OTHER -> 5

RECURSIVE sorted(_)
sorted(S) ==
    IF S = {} THEN <<>>
    ELSE LET m == CHOOSE f \in S : \A g \in S : NameRank(f) <= NameRank(g)
         IN <<m>> \o sorted(S \ {m})

\* str.lower on the extensions that occur
lower(e) ==
    CASE e = ".PNG" -> ".png"
      [] e = ".JPG" -> ".jpg"
      [] e = ".JPEG" -> ".jpeg"
      [] OTHER -> e

_is_image(p) == lower(p.ext) \in {".png", ".jpg", ".jpeg"}

\* whether pages[0].save(out, ...) can write the destination
Writable(o) == o = "cards.pdf"
SaveChoices == {"", "cards.pdf", "/readonly/cards.pdf"}

(***************************************************************************)
(* Images (PIL).  Image.open reads the header only; the pixel data is      *)
(* decoded by the first operation that needs it (convert, resize).  An     *)
(* operation that raises yields Raise.                                     *)
(***************************************************************************)
Raise == [ok |-> FALSE, im |-> [src |-> Path("", "", ""), mode |-> "", intact |-> FALSE]]
Value(im) == [ok |-> TRUE, im |-> im]

Image_open(p) ==
    CASE Data(p) = "rgb"       -> Value([src |-> p, mode |-> "RGB", intact |-> TRUE])
      [] Data(p) = "palette"   -> Value([src |-> p, mode |-> "P", intact |-> TRUE])
      [] Data(p) = "truncated" -> Value([src |-> p, mode |-> "RGB", intact |-> FALSE])
      [] OTHER                 -> Raise

Image_convert(im, mode) ==
    IF im.intact THEN Value([im EXCEPT !.mode = mode]) ELSE Raise

Image_resize(im) ==
    IF im.intact THEN Value(im) ELSE Raise

load_image_safe(p) ==
    LET r == Image_open(p)
    IN IF ~r.ok THEN Raise
       ELSE IF r.im.mode \in {"P", "LA"} THEN Image_convert(r.im, "RGBA")
       ELSE r

(***************************************************************************)
(* Geometry.                                                               *)
(***************************************************************************)
\* Python's round() of the fraction num/den (num >= 0, den > 0): to the nearest
\* integer, a tie to the even one
round(num, den) ==
    LET q == num \div den
        r == num % den
    IN IF 2 * r < den THEN q
       ELSE IF 2 * r > den THEN q + 1
       ELSE IF q % 2 = 0 THEN q ELSE q + 1

\* int(round(mm * dpi / 25.4))
mm_to_px(mm, dpi) == round(mm * dpi * 10, 254)

\* margin with the half truncated instead of rounded
margin_truncated(page, card) ==
    IF page - 3 * card <= 0 THEN 0 ELSE (page - 3 * card) \div 2

\* int(round(max(0, (page - 3 * card) / 2)))
margin(page, card) ==
    IF page - 3 * card <= 0 THEN 0 ELSE round(page - 3 * card, 2)

Geometry(dpi, card_w_mm, card_h_mm) ==
    LET page_w == mm_to_px(210, dpi)
        page_h == mm_to_px(297, dpi)
        card_w == mm_to_px(card_w_mm, dpi)
        card_h == mm_to_px(card_h_mm, dpi)
        m_h == margin(page_w, card_w)
        m_v == margin(page_h, card_h)
    IN [page_w |-> page_w, page_h |-> page_h, card_w |-> card_w, card_h |-> card_h,
        m_h |-> m_h, m_v |-> m_v,
        x_origins |-> [i \in 0..2 |-> m_h + i * card_w],
        y_origins |-> [j \in 0..2 |-> m_v + j * card_h]]

NoGeometry ==
    [page_w |-> 0, page_h |-> 0, card_w |-> 0, card_h |-> 0, m_h |-> 0, m_v |-> 0,
     x_origins |-> [i \in 0..2 |-> 0], y_origins |-> [j \in 0..2 |-> 0]]

(***************************************************************************)
(* The compositor.  A page is its size and the cards pasted on it; what no *)
(* paste covers is the white the page was created with.  A paste replaces  *)
(* an earlier paste at the same origin.                                    *)
(***************************************************************************)
Image_new(g) == [size |-> <<g.page_w, g.page_h>>, cards |-> {}]

Page_paste(page, im, x, y, g, masked) ==
    [page EXCEPT !.cards =
        {c \in @ : ~(c.x = x /\ c.y = y)}
        \cup {[x |-> x, y |-> y, w |-> g.card_w, h |-> g.card_h,
               src |-> im.src, masked |-> masked]}]

\* the state of the loops: idx, the page under construction, pages, the printed
\* warnings, and whether an exception left the function
Start == [idx |-> 0, page |-> [size |-> <<0, 0>>, cards |-> {}], pages |-> <<>>,
          warnings |-> <<>>, raised |-> FALSE]

\* PlaceItem with row and col exchanged in the paste origin
PlaceItem_transposed(image_paths, g, st, row, col) ==
    LET path == image_paths[st.idx + 1]
        img == load_image_safe(path)
    IN IF ~img.ok
       THEN [st EXCEPT !.warnings = Append(@, path), !.idx = @ + 1]
       ELSE LET img_resized == Image_resize(img.im)
            IN IF ~img_resized.ok
               THEN [st EXCEPT !.raised = TRUE]
               ELSE [st EXCEPT
                        !.page = Page_paste(@, img_resized.im, g.x_origins[row],
                                            g.y_origins[col], g,
                                            img_resized.im.mode \in {"RGBA", "LA"}),
                        !.idx = @ + 1]

\* PlaceItem without the print of line 69
PlaceItem_silent(image_paths, g, st, row, col) ==
    LET path == image_paths[st.idx + 1]
        img == load_image_safe(path)
    IN IF ~img.ok
       THEN [st EXCEPT !.idx = @ + 1]
       ELSE LET img_resized == Image_resize(img.im)
            IN IF ~img_resized.ok
               THEN [st EXCEPT !.raised = TRUE]
               ELSE [st EXCEPT
                        !.page = Page_paste(@, img_resized.im, g.x_origins[col],
                                            g.y_origins[row], g,
                                            img_resized.im.mode \in {"RGBA", "LA"}),
                        !.idx = @ + 1]

\* lines 65-81: the body of the col loop for one item
PlaceItem(image_paths, g, st, row, col) ==
    LET path == image_paths[st.idx + 1]
        img == load_image_safe(path)
    IN IF ~img.ok
       THEN [st EXCEPT !.warnings = Append(@, path), !.idx = @ + 1]
       ELSE LET img_resized == Image_resize(img.im)
            IN IF ~img_resized.ok
               THEN [st EXCEPT !.raised = TRUE]
               ELSE [st EXCEPT
                        !.page = Page_paste(@, img_resized.im, g.x_origins[col],
                                            g.y_origins[row], g,
                                            img_resized.im.mode \in {"RGBA", "LA"}),
                        !.idx = @ + 1]

\* ColLoop in which an item that fails to load does not use up its cell
RECURSIVE ColLoop_compact(_, _, _, _, _)
ColLoop_compact(image_paths, g, st, row, col) ==
    IF col > 2 \/ st.raised THEN st
    ELSE IF st.idx >= Len(image_paths) THEN st
    ELSE ColLoop_compact(image_paths, g, PlaceItem(image_paths, g, st, row, col), row,
            IF load_image_safe(image_paths[st.idx + 1]).ok THEN col + 1 ELSE col)

\* lines 62-81: for col in range(3)
RECURSIVE ColLoop(_, _, _, _, _)
ColLoop(image_paths, g, st, row, col) ==
    IF col > 2 \/ st.raised THEN st
    ELSE IF st.idx >= Len(image_paths) THEN st
    ELSE ColLoop(image_paths, g, PlaceItem(image_paths, g, st, row, col), row, col + 1)

\* lines 61-83: for row in range(3); the test of line 82 after the col loop of
\* one row is made on entry to the next row (at row 0 idx < total holds, line 59)
RECURSIVE RowLoop(_, _, _, _)
RowLoop(image_paths, g, st, row) ==
    IF row > 2 \/ st.raised \/ (row > 0 /\ st.idx >= Len(image_paths)) THEN st
    ELSE RowLoop(image_paths, g, ColLoop(image_paths, g, st, row, 0), row + 1)

\* line 60
NewPage(st, g) == [st EXCEPT !.page = Image_new(g)]

\* AppendPage that drops a page nothing was pasted on
AppendPage_nonblank(st) ==
    IF st.raised \/ st.page.cards = {} THEN st
    ELSE [st EXCEPT !.pages = Append(@, st.page)]

\* line 84, not reached when an exception left the loops
AppendPage(st) ==
    IF st.raised THEN st ELSE [st EXCEPT !.pages = Append(@, st.page)]

\* lines 59-84: while idx < total
RECURSIVE PageLoop(_, _, _)
PageLoop(image_paths, g, st) ==
    IF st.raised \/ st.idx >= Len(image_paths) THEN st
    ELSE PageLoop(image_paths, g,
                  AppendPage(RowLoop(image_paths, g, NewPage(st, g), 0)))

\* line 85: the pages returned (none when an exception left the function), the
\* warnings printed, and whether an exception left the function
Returned(st) ==
    [pages |-> IF st.raised THEN <<>> ELSE st.pages,
     warnings |-> st.warnings,
     raised |-> st.raised]

make_pages_from_paths(image_paths, dpi, card_w_mm, card_h_mm) ==
    Returned(PageLoop(image_paths, Geometry(dpi, card_w_mm, card_h_mm), Start))

(***************************************************************************)
(* The gallery.                                                            *)
(***************************************************************************)
Digit == <<"0", "1", "2", "3", "4", "5", "6", "7", "8", "9">>

\* str(n) for n >= 0: the decimal digits
RECURSIVE str(_)
str(n) == IF n < 10 THEN <<Digit[n + 1]>> ELSE str(n \div 10) \o <<Digit[(n % 10) + 1]>>

Item(p, q) == [path |-> p, qty |-> q]

\* lines 254-263: the items one entry of `paths` appends
AddedBy(p) ==
    IF isdir(p)
    THEN LET names == sorted(listdir(p))
             fps == [k \in 1..Len(names) |-> join(p, names[k])]
             keep(fp) == isfile(fp) /\ _is_image(fp)
             kept == SelectSeq(fps, keep)
         IN [k \in 1..Len(kept) |-> Item(kept[k], 1)]
    ELSE IF _is_image(p) /\ isfile(p) THEN <<Item(p, 1)>> ELSE <<>>

\* lines 253-263: the items the whole loop appends
RECURSIVE Added(_)
Added(paths) ==
    IF paths = <<>> THEN <<>> ELSE AddedBy(Head(paths)) \o Added(Tail(paths))

\* lines 340-374: the tiles rebuilt from the item list; the lambdas of the two
\* buttons capture the index idx of the item (0-based)
_render_tiles_full(its) ==
    [k \in 1..Len(its) |->
        [path |-> its[k].path, qty_var |-> str(its[k].qty),
         minus |-> k - 1, plus |-> k - 1]]

_add_paths(paths) ==
    LET new == Added(paths)
    IN /\ Len(items) + Len(new) <= MaxItems
       /\ items' = items \o new
       /\ tiles' = _render_tiles_full(items')
       /\ status' = IF Len(new) > 0 THEN <<"Added", Len(new)>> ELSE status
       /\ UNCHANGED <<pc, expanded, out, save_asked, pages, warnings, dialog,
                      saved_doc, args, geom>>

\* what the file dialog can return: one or two of the files on offer
Offered == {OkPng, PalPng, NotesTxt, MissingPng, BadJpg, TruncJpeg}
Selections == {<<p>> : p \in Offered} \cup {<<p, q>> : p \in Offered, q \in Offered}

add_files ==
    /\ pc = "idle"
    /\ \E paths \in Selections : _add_paths(paths)

add_folder ==
    /\ pc = "idle"
    /\ \E d \in {CardsDir, OldPng} : _add_paths(<<d>>)

RemoveAt(s, k) == SubSeq(s, 1, k - 1) \o SubSeq(s, k + 1, Len(s))

\* _adjust_qty_fast with the removal test new_q < 0
_adjust_qty_fast_keeps_zero(idx, delta) ==
    /\ IF 0 <= idx /\ idx < Len(items)
       THEN LET new_q == items[idx + 1].qty + delta
            IN IF new_q < 0
               THEN /\ items' = RemoveAt(items, idx + 1)
                    /\ tiles' = _render_tiles_full(items')
               ELSE /\ items' = [items EXCEPT ![idx + 1].qty = new_q]
                    /\ tiles' = [tiles EXCEPT ![idx + 1].qty_var = str(new_q)]
       ELSE UNCHANGED <<items, tiles>>
    /\ UNCHANGED <<status, pc, expanded, out, save_asked, pages, warnings, dialog,
                   saved_doc, args, geom>>

\* _adjust_qty_fast without the rebuild of the tiles after a removal
_adjust_qty_fast_stale(idx, delta) ==
    /\ IF 0 <= idx /\ idx < Len(items)
       THEN LET new_q == items[idx + 1].qty + delta
            IN IF new_q <= 0
               THEN /\ items' = RemoveAt(items, idx + 1)
                    /\ tiles' = tiles
               ELSE /\ items' = [items EXCEPT ![idx + 1].qty = new_q]
                    /\ tiles' = [tiles EXCEPT ![idx + 1].qty_var = str(new_q)]
       ELSE UNCHANGED <<items, tiles>>
    /\ UNCHANGED <<status, pc, expanded, out, save_asked, pages, warnings, dialog,
                   saved_doc, args, geom>>

_adjust_qty_fast(idx, delta) ==
    /\ IF 0 <= idx /\ idx < Len(items)
       THEN LET new_q == items[idx + 1].qty + delta
            IN IF new_q <= 0
               THEN /\ items' = RemoveAt(items, idx + 1)
                    /\ tiles' = _render_tiles_full(items')
               ELSE /\ items' = [items EXCEPT ![idx + 1].qty = new_q]
                    /\ tiles' = [tiles EXCEPT ![idx + 1].qty_var = str(new_q)]
       ELSE UNCHANGED <<items, tiles>>
    /\ UNCHANGED <<status, pc, expanded, out, save_asked, pages, warnings, dialog,
                   saved_doc, args, geom>>

\* a press of the minus button of tile k
press_minus ==
    /\ pc = "idle"
    /\ \E k \in 1..Len(tiles) : _adjust_qty_fast(tiles[k].minus, -1)

\* a press of the plus button of tile k (the quantity is capped at MaxQty)
press_plus ==
    /\ pc = "idle"
    /\ \E k \in 1..Len(tiles) :
          /\ tiles[k].plus < Len(items) => items[tiles[k].plus + 1].qty < MaxQty
          /\ _adjust_qty_fast(tiles[k].plus, 1)

clear_all ==
    /\ pc = "idle"
    /\ items # <<>>
    /\ \E yes \in BOOLEAN :
          IF yes
          THEN /\ items' = <<>>
               /\ tiles' = _render_tiles_full(items')
               /\ status' = <<"Cleared list.">>
               /\ UNCHANGED <<pc, expanded, out, save_asked, pages, warnings, dialog,
                              saved_doc, args, geom>>
          ELSE UNCHANGED vars

(***************************************************************************)
(* make_pdf.                                                               *)
(***************************************************************************)
Max(a, b) == IF a >= b THEN a ELSE b

Repeat(x, n) == [k \in 1..n |-> x]

\* Expand that takes every item once, whatever its quantity
RECURSIVE Expand_once(_)
Expand_once(its) ==
    IF its = <<>> THEN <<>> ELSE <<Head(its).path>> \o Expand_once(Tail(its))

\* lines 408-410
RECURSIVE Expand(_)
Expand(its) ==
    IF its = <<>> THEN <<>>
    ELSE Repeat(Head(its).path, Max(1, Head(its).qty)) \o Expand(Tail(its))

NoArgs == [dpi |-> 0, card_w_mm |-> 0, card_h_mm |-> 0]
DefaultArgs == [dpi |-> DEFAULT_DPI, card_w_mm |-> DEFAULT_CARD_W_MM,
                card_h_mm |-> DEFAULT_CARD_H_MM]
NoDialog == <<"none">>

\* lines 423-430: r is what make_pages_from_paths did; pages[0] raises on an empty
\* list and save raises on a destination that cannot be written
build_and_save(o, r) ==
    /\ args' = DefaultArgs
    /\ geom' = Geometry(DEFAULT_DPI, DEFAULT_CARD_W_MM, DEFAULT_CARD_H_MM)
    /\ pages' = r.pages
    /\ warnings' = r.warnings
    /\ IF r.raised \/ r.pages = <<>> \/ ~Writable(o)
       THEN /\ saved_doc' = <<>>
            /\ dialog' = <<"error", IF r.raised THEN "image file is truncated"
                                     ELSE IF r.pages = <<>> THEN "list index out of range"
                                     ELSE "Permission denied">>
            /\ status' = <<"Error.">>
       ELSE /\ saved_doc' = r.pages
            /\ dialog' = <<"info", "Done">>
            /\ status' = <<"Saved", Len(r.pages), o>>

\* make_pdf without the test of lines 403-405
make_pdf_unguarded ==
    /\ pc = "idle"
    /\ pc' = "done"
    /\ UNCHANGED <<items, tiles>>
    /\ expanded' = Expand(items)
    /\ save_asked' = TRUE
    /\ \E o \in SaveChoices :
          /\ out' = o
          /\ IF o = ""
             THEN UNCHANGED <<status, pages, warnings, dialog, saved_doc, args, geom>>
             ELSE build_and_save(o, make_pages_from_paths(Expand(items),
                      DEFAULT_DPI, DEFAULT_CARD_W_MM, DEFAULT_CARD_H_MM))

make_pdf ==
    /\ pc = "idle"
    /\ pc' = "done"
    /\ UNCHANGED <<items, tiles>>
    /\ IF items = <<>>
       THEN /\ dialog' = <<"error", "No images in the list.">>
            /\ UNCHANGED <<status, expanded, out, save_asked, pages, warnings,
                           saved_doc, args, geom>>
       ELSE /\ expanded' = Expand(items)
            /\ save_asked' = TRUE
            /\ \E o \in SaveChoices :
                  /\ out' = o
                  /\ IF o = ""
                     THEN UNCHANGED <<status, pages, warnings, dialog, saved_doc,
                                      args, geom>>
                     ELSE build_and_save(o, make_pages_from_paths(Expand(items),
                              DEFAULT_DPI, DEFAULT_CARD_W_MM, DEFAULT_CARD_H_MM))

\* make_pdf returns to the event loop: its locals and its message box are gone
make_pdf_return ==
    /\ pc = "done"
    /\ pc' = "idle"
    /\ expanded' = <<>>
    /\ out' = ""
    /\ save_asked' = FALSE
    /\ pages' = <<>>
    /\ warnings' = <<>>
    /\ dialog' = NoDialog
    /\ saved_doc' = <<>>
    /\ args' = NoArgs
    /\ geom' = NoGeometry
    /\ UNCHANGED <<items, tiles, status>>

Init ==
    /\ items = <<>>
    /\ tiles = _render_tiles_full(items)
    /\ status = <<"Drag & drop images or use Add Files/Folder">>
    /\ pc = "idle"
    /\ expanded = <<>>
    /\ out = ""
    /\ save_asked = FALSE
    /\ pages = <<>>
    /\ warnings = <<>>
    /\ dialog = NoDialog
    /\ saved_doc = <<>>
    /\ args = NoArgs
    /\ geom = NoGeometry

Next ==
    \/ add_files
    \/ add_folder
    \/ press_minus
    \/ press_plus
    \/ clear_all
    \/ make_pdf
    \/ make_pdf_return

Spec == Init /\ [][Next]_vars

(***************************************************************************)
(* make_pages_from_paths as a function of its arguments: the arguments are *)
(* drawn, and one call is made.                                            *)
(***************************************************************************)
Dpis == {72, 96, 150, 300}
CardWidths == 60..MaxCardW
CardHeights == {87, 88, 99, 100}
\* the jobs composed under every geometry
Jobs == {<<OkPng>>, <<BadJpg, PalPng>>}

\* the jobs composed under the default geometry: n entries of one loadable image,
\* with the entries at the positions i and j replaced by any image file
Images == {OkPng, PalPng, BadJpg, TruncJpeg}
Job(n, b, i, p, j, q) ==
    [k \in 1..n |-> IF k = i THEN p ELSE IF k = j THEN q ELSE b]
JobsOfLength(n) ==
    {Job(n, b, i, p, j, q) : b \in {OkPng, PalPng}, i \in 1..n, p \in Images,
                             j \in 1..n, q \in Images}
LongJobs == UNION {JobsOfLength(n) : n \in 1..MaxJob}

GeometryArgs == [dpi : Dpis, card_w_mm : CardWidths, card_h_mm : CardHeights]

InitCompose ==
    /\ items = <<>>
    /\ tiles = _render_tiles_full(items)
    /\ status = <<"Drag & drop images or use Add Files/Folder">>
    /\ pc = "idle"
    /\ \/ expanded \in Jobs /\ args \in GeometryArgs
       \/ expanded \in LongJobs /\ args = DefaultArgs
    /\ out = ""
    /\ save_asked = FALSE
    /\ pages = <<>>
    /\ warnings = <<>>
    /\ dialog = NoDialog
    /\ saved_doc = <<>>
    /\ geom = NoGeometry

\* the call, and what its result shows of the locals of lines 44-54
Result(r) ==
    /\ pages' = r.pages
    /\ warnings' = r.warnings

call_make_pages ==
    /\ pc = "idle"
    /\ pc' = "done"
    /\ Result(make_pages_from_paths(expanded, args.dpi, args.card_w_mm, args.card_h_mm))
    /\ geom' = Geometry(args.dpi, args.card_w_mm, args.card_h_mm)
    /\ UNCHANGED <<items, tiles, status, expanded, out, save_asked, dialog, saved_doc,
                   args>>

NextCompose == call_make_pages

SpecCompose == InitCompose /\ [][NextCompose]_vars

(***************************************************************************)
(* The claims.                                                             *)
(***************************************************************************)
\* make_pages_from_paths has been called in the call at hand
Composed == pc = "done" /\ geom # NoGeometry

N == Len(expanded)
Ceil9(n) == (n + 8) \div 9

FailsToLoad(p) == ~load_image_safe(p).ok
Loadable(p) == Data(p) \in {"rgb", "palette"}
FailsToDecode(p) == Data(p) = "truncated"

\* the cards of the page list pgs in the grid cell of sequence position i (0-based):
\* page i div 9, row (i mod 9) div 3, column i mod 3
CardsAt(pgs, i) ==
    IF (i \div 9) + 1 > Len(pgs) THEN {}
    ELSE {c \in pgs[(i \div 9) + 1].cards :
            /\ c.x = geom.x_origins[i % 3]
            /\ c.y = geom.y_origins[(i % 9) \div 3]}

\* the sources of the cards of a set of cards
Sources(cs) == {c.src : c \in cs}

C2_Placement ==
    Composed /\ N >= 1 /\ (\A k \in 1..N : Loadable(expanded[k])) =>
        /\ Len(pages) = Ceil9(N)
        /\ \A i \in 0..(N - 1) :
              /\ Sources(CardsAt(pages, i)) = {expanded[i + 1]}
              /\ \A c \in CardsAt(pages, i) : c.w = geom.card_w /\ c.h = geom.card_h
        /\ \A pg \in 1..Len(pages) :
              Cardinality(pages[pg].cards) =
                  IF pg < Len(pages) THEN 9 ELSE N - 9 * (Len(pages) - 1)
        /\ \A i \in N..(9 * Len(pages) - 1) : CardsAt(pages, i) = {}

\* 10 loadable images: 2 pages, the second with the cell of row 0, column 0 alone
C2_Witness ==
    /\ Composed
    /\ N = 10
    /\ \A k \in 1..N : Loadable(expanded[k])
    /\ Len(pages) = 2
    /\ Cardinality(pages[1].cards) = 9
    /\ pages[2].cards = CardsAt(pages, 9)
    /\ Cardinality(pages[2].cards) = 1

\* the job with the entry at position i (0-based) omitted
Omit(job, i) == SubSeq(job, 1, i) \o SubSeq(job, i + 2, Len(job))

\* the job holds exactly one entry that fails to load, at position i, and the
\* others are loadable
OneUnreadableAt(i) ==
    /\ i \in 0..(N - 1)
    /\ FailsToLoad(expanded[i + 1])
    /\ \A k \in 1..N : k # i + 1 => Loadable(expanded[k])

\* the pages of the same job with position i omitted
OmittedPages(i) ==
    make_pages_from_paths(Omit(expanded, i), args.dpi, args.card_w_mm,
                          args.card_h_mm).pages

\* C3 as stated: a job with one unreadable reference among valid ones gives the
\* page count and the fill pattern of the job with that reference omitted, and a
\* warning for it
C3_SameAsOmitted ==
    \A i \in 0..(N - 1) :
        Composed /\ OneUnreadableAt(i) =>
            /\ pages = OmittedPages(i)
            /\ warnings = <<expanded[i + 1]>>

\* C3 amended: the job gives ceil(N/9) pages, N counting the unreadable reference
\* (one page more than the job without it when N mod 9 = 1); the references before
\* the unreadable one fill the cells they fill in the job without it, the cell of
\* the unreadable one is blank, every reference after it fills the cell one past
\* the cell it fills in the job without it; a warning is recorded for it
C3_BlankInPlace ==
    \A i \in 0..(N - 1) :
        Composed /\ OneUnreadableAt(i) =>
            /\ Len(pages) = Ceil9(N)
            /\ Len(pages) = Len(OmittedPages(i)) + (IF N % 9 = 1 THEN 1 ELSE 0)
            /\ \A j \in 0..(i - 1) :
                  Sources(CardsAt(pages, j)) = Sources(CardsAt(OmittedPages(i), j))
            /\ CardsAt(pages, i) = {}
            /\ \A j \in (i + 1)..(N - 1) :
                  /\ Sources(CardsAt(pages, j)) = Sources(CardsAt(OmittedPages(i), j - 1))
                  /\ Sources(CardsAt(pages, j)) = {expanded[j + 1]}
            /\ warnings = <<expanded[i + 1]>>

\* 10 references, the fifth unreadable: its cell is blank, the tenth reference is
\* alone on a second page that the job without the unreadable one does not have
C3_Witness ==
    /\ Composed
    /\ N = 10
    /\ OneUnreadableAt(4)
    /\ CardsAt(pages, 4) = {}
    /\ Len(pages) = 2
    /\ Len(OmittedPages(4)) = 1
    /\ Sources(CardsAt(pages, 9)) = {expanded[10]}
    /\ warnings = <<expanded[5]>>

\* the entries of the job before the first one that fails to decode
BeforeRaise ==
    LET stops == {k \in 1..N : FailsToDecode(expanded[k])}
    IN IF stops = {} THEN expanded
       ELSE SubSeq(expanded, 1, (CHOOSE k \in stops : \A m \in stops : k <= m) - 1)

C5_NoItemErrorAborts ==
    pc = "done" /\ dialog[1] = "error" => items = <<>> \/ ~Writable(out)

\* make_pdf has reached pages[0].save
ReachedSave ==
    /\ pc = "done"
    /\ \/ dialog = <<"info", "Done">>
       \/ dialog = <<"error", "Permission denied">>

\* C7: an empty job is rejected with the error "No images in the list.", with no
\* page, no output file and no save dialog; whenever make_pdf reaches the save
\* step the page list is non-empty
C7_EmptyJob ==
    /\ pc = "done" /\ items = <<>> =>
          /\ dialog = <<"error", "No images in the list.">>
          /\ ~save_asked
          /\ pages = <<>>
          /\ saved_doc = <<>>
    /\ ReachedSave => pages # <<>>
    /\ pc = "done" => dialog # <<"error", "list index out of range">>

C7_Witness ==
    /\ pc = "done"
    /\ items = <<>>
    /\ dialog = <<"error", "No images in the list.">>
    /\ ~save_asked

\* the sum of the quantities of the first k items
RECURSIVE SumQty(_, _)
SumQty(its, k) == IF k = 0 THEN 0 ELSE SumQty(its, k - 1) + its[k].qty

\* C8: make_pdf flattens the item list so that the item k with quantity q gives q
\* consecutive entries, in list order; the length is the sum of the quantities and
\* the item list is left as it was
C8_Expansion ==
    [][pc = "idle" /\ pc' = "done" /\ items # <<>> =>
          /\ items' = items
          /\ Len(expanded') = SumQty(items, Len(items))
          /\ \A k \in 1..Len(items) :
                \A m \in 1..items[k].qty :
                    expanded'[SumQty(items, k - 1) + m] = items[k].path]_vars

\* [(A, 2), (B, 1)] flattened to [A, A, B]
C8_Witness ==
    /\ pc = "done"
    /\ Len(items) = 2
    /\ items[1].qty = 2
    /\ items[2].qty = 1
    /\ items[1].path # items[2].path
    /\ expanded = <<items[1].path, items[1].path, items[2].path>>

QtyOk(its) == \A k \in 1..Len(its) : its[k].qty >= 1

RECURSIVE Shown(_)
Shown(s) ==
    IF s = <<>> THEN 0
    ELSE 10 * Shown(SubSeq(s, 1, Len(s) - 1))
         + (CHOOSE d \in 0..9 : Digit[d + 1] = s[Len(s)])

\* C10: the tile list mirrors the item list: the same length, tile k with the path
\* and the quantity of item k, and its buttons with the index of item k
C10_TilesMirrorItems ==
    /\ Len(tiles) = Len(items)
    /\ \A k \in 1..Len(tiles) :
          /\ tiles[k].path = items[k].path
          /\ Shown(tiles[k].qty_var) = items[k].qty
          /\ tiles[k].minus = k - 1
          /\ tiles[k].plus = k - 1

\* after a removal and two presses of plus the one tile left shows 3 and has index 0
C10_Witness ==
    /\ status = <<"Added", 2>>
    /\ Len(items) = 1
    /\ items[1].qty = 3
    /\ tiles[1].qty_var = <<"3">>
    /\ tiles[1].minus = 0

\* the block of three cards fits the page, horizontally and vertically
FitsW == 3 * geom.card_w <= geom.page_w
FitsH == 3 * geom.card_h <= geom.page_h

\* C6 as stated: when the block fits, x_origins[0] + x_origins[2] + card_w is page_w
\* and y_origins[0] + y_origins[2] + card_h is page_h; else the margin is 0
C6_Centered ==
    Composed =>
        /\ FitsW => geom.x_origins[0] + geom.x_origins[2] + geom.card_w = geom.page_w
        /\ FitsH => geom.y_origins[0] + geom.y_origins[2] + geom.card_h = geom.page_h
        /\ ~FitsW => geom.m_h = 0
        /\ ~FitsH => geom.m_v = 0

\* the sum origin[0] + origin[2] + card against the page: equal when page - 3 * card
\* is even; when it is odd the margin is the even one of the two integers next to
\* the half, and the sum is one less or one more than the page
CenteredToAPixel(o, card, page) ==
    LET d == page - 3 * card
        total == o[0] + o[2] + card
    IN /\ d % 2 = 0 => total = page
       /\ d % 2 = 1 => /\ o[0] % 2 = 0
                       /\ total \in {page - 1, page + 1}

\* C6 amended: when the block fits, the sum equals the page size if page - 3 * card
\* is even and differs from it by exactly one pixel if it is odd; when the block
\* does not fit the margin is 0; the margin is never negative
C6_CenteredToAPixel ==
    Composed =>
        /\ FitsW => CenteredToAPixel(geom.x_origins, geom.card_w, geom.page_w)
        /\ FitsH => CenteredToAPixel(geom.y_origins, geom.card_h, geom.page_h)
        /\ ~FitsW => geom.m_h = 0
        /\ ~FitsH => geom.m_v = 0
        /\ geom.m_h >= 0 /\ geom.m_v >= 0
        /\ geom.x_origins[0] = geom.m_h /\ geom.y_origins[0] = geom.m_v

\* 62 mm cards at 72 dpi: 595 - 3 * 176 = 67 is odd, the margin is 34
C6_Witness ==
    /\ Composed
    /\ args.dpi = 72
    /\ args.card_w_mm = 62
    /\ FitsW
    /\ (geom.page_w - 3 * geom.card_w) % 2 = 1
    /\ geom.x_origins[0] + geom.x_origins[2] + geom.card_w = geom.page_w + 1

====
